---- MODULE Spec2Model ----
(***************************************************************************)
(* Model of the two Kafka consumers of buzzline-6-valenti:                 *)
(*   src/consumers/project_consumer_valenti.py        (variant "project")  *)
(*   src/consumers/draft_project_consumer_valenti.py  (variant "draft")    *)
(* Both keep the nested tally season_counts[season][author], redraw a      *)
(* stacked bar chart after every counted message, and run one loop over    *)
(* the consumer inside try / except KeyboardInterrupt / except Exception / *)
(* finally consumer.close().                                               *)
(***************************************************************************)
EXTENDS Integers, Sequences, FiniteSets, TLC

VARIABLES
    variant,        \* which of the two scripts is running
    pc,             \* position of main: "iterate", "call", "render", "finally", "done"
    offset,         \* number of messages the consumer has yielded so far
    cur,            \* the message main holds (message.value and message.offset)
    season_counts,  \* the nested defaultdict, as a list of (season, inner dict) in insertion order
    chart,          \* what the last completed update_chart left on the axes
    handed,         \* the messages process_message was called with, in call order
    outcomes,       \* how each call of process_message that returned ended
    increments,     \* number of executions of  season_counts[season][author] += 1
    renders,        \* number of update_chart calls that ran to completion
    errors,         \* number of logger.error entries
    warnings,       \* number of logger.warning entries
    closes,         \* number of consumer.close() calls
    exit            \* how the for loop ended: "none", "exhausted", "interrupt", "error"

vars == <<variant, pc, offset, cur, season_counts, chart, handed, outcomes,
          increments, renders, errors, warnings, closes, exit>>

\* ------------------------------------------------------------------ bounds

\* Number of messages the source yields before it can only end.
MaxMessages == 3

\* ------------------------------------------------------------------ strings

\* The characters of each string the model uses (TLA+ strings are atomic).
Chars(s) ==
    CASE s = "1" -> <<"1">>
      [] s = "2" -> <<"2">>
      [] s = "10" -> <<"1", "0">>
      [] s = "unknown" -> <<"u", "n", "k", "n", "o", "w", "n">>
      [] s = "Homer" -> <<"H", "o", "m", "e", "r">>
      [] s = "Bart" -> <<"B", "a", "r", "t">>
      [] s = "Marge" -> <<"M", "a", "r", "g", "e">>
      [] s = "Lisa" -> <<"L", "i", "s", "a">>
      [] s = "Maggie" -> <<"M", "a", "g", "g", "i", "e">>

DigitValue(c) ==
    CASE c = "0" -> 0 [] c = "1" -> 1 [] c = "2" -> 2 [] c = "3" -> 3
      [] c = "4" -> 4 [] c = "5" -> 5 [] c = "6" -> 6 [] c = "7" -> 7
      [] c = "8" -> 8 [] c = "9" -> 9 [] OTHER -> -1

\* int(s) raises ValueError unless s is a literal; the model's strings carry
\* no sign, blank or underscore, so a literal is a non-empty run of digits.
IntRaises(s) ==
    \/ Len(Chars(s)) = 0
    \/ \E i \in 1..Len(Chars(s)) : DigitValue(Chars(s)[i]) < 0

RECURSIVE DigitsValue(_)
DigitsValue(cs) ==
    IF cs = <<>> THEN 0
    ELSE 10 * DigitsValue(SubSeq(cs, 1, Len(cs) - 1)) + DigitValue(cs[Len(cs)])

\* int(s) for a string on which it does not raise.
PyInt(s) == DigitsValue(Chars(s))

\* ------------------------------------------------------------------ payloads

\* A field of a decoded JSON object: absent, a string, or a JSON array/object
\* (a Python list/dict, which cannot be a dict key).
Absent == [tag |-> "absent", s |-> ""]
Unhashable == [tag |-> "list", s |-> ""]
Str(s) == [tag |-> "str", s |-> s]

AuthorFields == {Absent, Unhashable, Str("Homer"), Str("Bart")}
SeasonFields == {Absent, Unhashable, Str("1"), Str("2"), Str("10")}

\* message.value: text that is not JSON, JSON whose top level is an array or a
\* scalar, or a JSON object.
NotJson == [kind |-> "text", author |-> Absent, season |-> Absent]
NotObject == [kind |-> "array", author |-> Absent, season |-> Absent]
Object(a, s) == [kind |-> "object", author |-> a, season |-> s]

Payloads ==
    {NotJson, NotObject} \cup {Object(a, s) : a \in AuthorFields, s \in SeasonFields}

NoMessage == [offset |-> -1, value |-> NotJson]

\* message_dict.get(key, "unknown")
GetOrUnknown(field) == IF field.tag = "absent" THEN Str("unknown") ELSE field

\* ------------------------------------------------------------------ season_counts

\* author_colors, in the dict's iteration order.
author_colors == <<"Homer", "Bart", "Marge", "Lisa", "Maggie">>

ColouredAuthors == {author_colors[i] : i \in 1..Len(author_colors)}

\* season_counts.keys(), in insertion order.
Keys(table) == [i \in 1..Len(table) |-> table[i].season]

KeySet(table) == {table[i].season : i \in 1..Len(table)}

EmptyInner == [a \in {} |-> 0]

\* season_counts[season] without inserting: the inner dict, empty when absent.
Inner(table, season) ==
    IF season \in KeySet(table)
    THEN table[CHOOSE i \in 1..Len(table) : table[i].season = season].counts
    ELSE EmptyInner

\* inner.get(author, 0)
Get(inner, author) == IF author \in DOMAIN inner THEN inner[author] ELSE 0

\* The count of a (season, author) pair, an absent entry counting as zero.
Count(table, season, author) == Get(Inner(table, season), author)

RECURSIVE SumOver(_, _)
SumOver(inner, as) ==
    IF as = {} THEN 0
    ELSE LET a == CHOOSE x \in as : TRUE
         IN inner[a] + SumOver(inner, as \ {a})

\* sum(inner.values())
SumValues(inner) == SumOver(inner, DOMAIN inner)

RECURSIVE SumTable(_)
SumTable(table) ==
    IF table = <<>> THEN 0
    ELSE SumValues(table[1].counts) + SumTable(Tail(table))

\* season_counts[season]: the defaultdict inserts an empty inner dict for a
\* season that is not a key yet.
Vivify(table, season) ==
    IF season \in KeySet(table) THEN table
    ELSE Append(table, [season |-> season, counts |-> EmptyInner])

\* Faulty variant: inner[author] = 1, which forgets the count so far.
InnerIncrementSet(inner, author) ==
    [a \in DOMAIN inner \cup {author} |-> IF a = author THEN 1 ELSE inner[a]]

\* inner[author] += 1 on a defaultdict(int)
InnerIncrement(inner, author) ==
    [a \in DOMAIN inner \cup {author} |->
        IF a = author THEN Get(inner, author) + 1 ELSE inner[a]]

\* Faulty variant: season_counts[season] = {author: count + 1}, which forgets
\* the season's other authors.
IncrementReplacingInner(table, season, author) ==
    LET t == Vivify(table, season)
    IN [i \in 1..Len(t) |->
           IF t[i].season = season
           THEN [season |-> season,
                 counts |-> InnerIncrement(
                     [a \in DOMAIN t[i].counts \cap {author} |-> t[i].counts[a]], author)]
           ELSE t[i]]

\* season_counts[season][author] += 1
Increment(table, season, author) ==
    LET t == Vivify(table, season)
    IN [i \in 1..Len(t) |->
           IF t[i].season = season
           THEN [season |-> season, counts |-> InnerIncrement(t[i].counts, author)]
           ELSE t[i]]

\* ------------------------------------------------------------------ update_chart

\* One step of the stable sort: s goes after every element whose int() is not
\* larger, so equal keys keep their insertion order.
RECURSIVE InsertByInt(_, _)
InsertByInt(sorted, s) ==
    IF sorted = <<>> THEN <<s>>
    ELSE IF PyInt(s) < PyInt(sorted[1]) THEN <<s>> \o sorted
    ELSE <<sorted[1]>> \o InsertByInt(Tail(sorted), s)

RECURSIVE SortByInt(_)
SortByInt(keys) ==
    IF keys = <<>> THEN <<>>
    ELSE InsertByInt(SortByInt(SubSeq(keys, 1, Len(keys) - 1)), keys[Len(keys)])

\* sorted(season_counts.keys(), key=int) raises ValueError on a key that is
\* not an integer literal.
SortRaises(table) == \E s \in KeySet(table) : IntRaises(s)

\* The draft never calls int(): its update_chart raises on no table.
update_chart_raises(v, table) == v = "project" /\ SortRaises(table)

\* Faulty variant: the keys in insertion order in both scripts.
SeasonsUnsorted(v, table) == Keys(table)

\* The x positions of the bars: sorted_seasons in the project, list(keys()) in
\* the draft.
Seasons(v, table) == IF v = "project" THEN SortByInt(Keys(table)) ELSE Keys(table)

\* Faulty variant: the total of the authors of author_colors only.
TotalOfColoured(table, season) ==
    SumOver(Inner(table, season), DOMAIN Inner(table, season) \cap ColouredAuthors)

\* total_messages_per_season[season]
TotalOf(table, season) == SumValues(Inner(table, season))

\* f"{(count / total) * 100:.1f}" as tenths of a percent: the nearest tenth,
\* a tie going to the even one (no tie is exact for totals below 16).
PercentTenths(count, total) ==
    LET n == 1000 * count
        q == n \div total
        r == n % total
    IN IF 2 * r < total THEN q
       ELSE IF 2 * r > total THEN q + 1
       ELSE IF q % 2 = 0 THEN q ELSE q + 1

\* The ax.text calls of one update_chart: one per author of author_colors and
\* season whose count is positive. The draft draws no label.
Labels(v, table) ==
    IF v # "project" THEN {}
    ELSE {[season |-> s, author |-> a,
           count |-> Count(table, s, a),
           total |-> TotalOf(table, s),
           tenths |-> PercentTenths(Count(table, s, a), TotalOf(table, s))] :
             <<s, a>> \in {p \in KeySet(table) \X ColouredAuthors :
                             Count(table, p[1], p[2]) > 0}}

\* What a completed update_chart leaves on the axes.
Drawn(v, table) ==
    [drawn |-> TRUE, seasons |-> Seasons(v, table), labels |-> Labels(v, table)]

\* The axes as plt.subplots() creates them.
EmptyChart == [drawn |-> FALSE, seasons |-> <<>>, labels |-> {}]

\* ------------------------------------------------------------------ state machine

Variants == {"project", "draft"}

Init ==
    /\ variant \in Variants
    /\ pc = "iterate"
    /\ offset = 0
    /\ cur = NoMessage
    /\ season_counts = <<>>
    /\ chart = EmptyChart
    /\ handed = <<>>
    /\ outcomes = <<>>
    /\ increments = 0
    /\ renders = 0
    /\ errors = 0
    /\ warnings = 0
    /\ closes = 0
    /\ exit = "none"

\* main: the consumer yields the next message (for message in consumer;
\* message_str = message.value).
main_next ==
    /\ pc = "iterate"
    /\ offset < MaxMessages
    /\ \E p \in Payloads : cur' = [offset |-> offset, value |-> p]
    /\ offset' = offset + 1
    /\ pc' = "call"
    /\ UNCHANGED <<variant, season_counts, chart, handed, outcomes, increments,
                   renders, errors, warnings, closes, exit>>

\* process_message returns to the loop without having called update_chart.
Returns(outcome) ==
    /\ handed' = Append(handed, cur)
    /\ outcomes' = Append(outcomes, outcome)
    /\ cur' = NoMessage
    /\ pc' = "iterate"
    /\ UNCHANGED <<variant, offset, chart, increments, renders, warnings, closes, exit>>

\* Faulty variant: the JSONDecodeError is swallowed without a log entry.
process_message_invalid_json_silent ==
    /\ pc = "call"
    /\ cur.value.kind = "text"
    /\ errors' = errors
    /\ season_counts' = season_counts
    /\ Returns("invalid_json")

\* process_message: json.loads raises JSONDecodeError; logger.error.
process_message_invalid_json ==
    /\ pc = "call"
    /\ cur.value.kind = "text"
    /\ errors' = errors + 1
    /\ season_counts' = season_counts
    /\ Returns("invalid_json")

\* Faulty variant: a value that is no dict raises out of process_message and
\* ends the loop in main's except Exception.
process_message_not_dict_propagates ==
    /\ pc = "call"
    /\ cur.value.kind = "array"
    /\ errors' = errors + 1
    /\ handed' = Append(handed, cur)
    /\ outcomes' = Append(outcomes, "not_dict")
    /\ exit' = "error"
    /\ pc' = "finally"
    /\ UNCHANGED <<variant, offset, cur, season_counts, chart, increments, renders,
                   warnings, closes>>

\* process_message: the decoded value is no dict; logger.error.
process_message_not_dict ==
    /\ pc = "call"
    /\ cur.value.kind = "array"
    /\ errors' = errors + 1
    /\ season_counts' = season_counts
    /\ Returns("not_dict")

\* The table after  season_counts[season][author] += 1  raised TypeError:
\* an unhashable season raises before anything is inserted, an unhashable
\* author after season_counts[season] inserted the season's inner dict.
AfterTypeError(table, season) ==
    IF season.tag = "list" THEN table ELSE Vivify(table, season.s)

\* process_message: author or season is a list or dict, so the increment raises
\* TypeError, which except Exception logs.
process_message_unhashable ==
    /\ pc = "call"
    /\ cur.value.kind = "object"
    /\ LET author == GetOrUnknown(cur.value.author)
           season == GetOrUnknown(cur.value.season)
       IN /\ author.tag = "list" \/ season.tag = "list"
          /\ season_counts' = AfterTypeError(season_counts, season)
    /\ errors' = errors + 1
    /\ Returns("type_error")

\* Faulty variant: message_dict["author"] and message_dict["season"], so that a
\* missing field raises KeyError and the message is dropped.
process_message_increment_strict ==
    /\ pc = "call"
    /\ cur.value.kind = "object"
    /\ cur.value.author.tag # "list" /\ cur.value.season.tag # "list"
    /\ IF cur.value.author.tag = "absent" \/ cur.value.season.tag = "absent"
       THEN /\ errors' = errors + 1
            /\ season_counts' = season_counts
            /\ Returns("type_error")
       ELSE /\ season_counts' =
                   Increment(season_counts, cur.value.season.s, cur.value.author.s)
            /\ increments' = increments + 1
            /\ handed' = Append(handed, cur)
            /\ pc' = "render"
            /\ UNCHANGED <<variant, offset, cur, chart, outcomes, renders, errors,
                           warnings, closes, exit>>

\* process_message up to the call of update_chart: decode, default the
\* missing fields, increment.
process_message_increment ==
    /\ pc = "call"
    /\ cur.value.kind = "object"
    /\ LET author == GetOrUnknown(cur.value.author)
           season == GetOrUnknown(cur.value.season)
       IN /\ author.tag = "str" /\ season.tag = "str"
          /\ season_counts' = Increment(season_counts, season.s, author.s)
    /\ increments' = increments + 1
    /\ handed' = Append(handed, cur)
    /\ pc' = "render"
    /\ UNCHANGED <<variant, offset, cur, chart, outcomes, renders, errors,
                   warnings, closes, exit>>

\* update_chart runs to completion and process_message returns.
update_chart_completes ==
    /\ pc = "render"
    /\ ~update_chart_raises(variant, season_counts)
    /\ chart' = Drawn(variant, season_counts)
    /\ renders' = renders + 1
    /\ outcomes' = Append(outcomes, "rendered")
    /\ cur' = NoMessage
    /\ pc' = "iterate"
    /\ UNCHANGED <<variant, offset, season_counts, handed, increments, errors,
                   warnings, closes, exit>>

\* update_chart raises after ax.clear(); except Exception in process_message
\* logs the error and process_message returns.
update_chart_fails ==
    /\ pc = "render"
    /\ update_chart_raises(variant, season_counts)
    /\ chart' = EmptyChart
    /\ errors' = errors + 1
    /\ outcomes' = Append(outcomes, "render_error")
    /\ cur' = NoMessage
    /\ pc' = "iterate"
    /\ UNCHANGED <<variant, offset, season_counts, handed, increments, renders,
                   warnings, closes, exit>>

\* main: the iterator is exhausted and the for loop ends.
main_exhausted ==
    /\ pc = "iterate"
    /\ exit' = "exhausted"
    /\ pc' = "finally"
    /\ UNCHANGED <<variant, offset, cur, season_counts, chart, handed, outcomes,
                   increments, renders, errors, warnings, closes>>

\* The positions at which KeyboardInterrupt can be raised: process_message
\* catches Exception only, so an interrupt inside it reaches main's handler.
Interruptible == {"iterate", "call", "render"}

\* Faulty variant: except KeyboardInterrupt: pass.
main_KeyboardInterrupt_silent ==
    /\ pc \in {"iterate", "call", "render"}
    /\ exit' = "interrupt"
    /\ pc' = "finally"
    /\ UNCHANGED <<variant, offset, cur, season_counts, chart, handed, outcomes,
                   increments, renders, errors, warnings, closes>>

\* main: except KeyboardInterrupt; logger.warning. An interrupt inside
\* update_chart finds the axes either untouched or already cleared.
main_KeyboardInterrupt ==
    /\ pc \in Interruptible
    /\ warnings' = warnings + 1
    /\ exit' = "interrupt"
    /\ pc' = "finally"
    /\ chart' \in (IF pc = "render" THEN {chart, EmptyChart} ELSE {chart})
    /\ UNCHANGED <<variant, offset, cur, season_counts, handed, outcomes,
                   increments, renders, errors, closes>>

\* Faulty variant: no finally clause, so the handler is the end of main.
main_Exception_no_finally ==
    /\ pc = "iterate"
    /\ errors' = errors + 1
    /\ exit' = "error"
    /\ pc' = "done"
    /\ UNCHANGED <<variant, offset, cur, season_counts, chart, handed, outcomes,
                   increments, renders, warnings, closes>>

\* main: except Exception for an error the iterator raises; logger.error.
main_Exception ==
    /\ pc = "iterate"
    /\ errors' = errors + 1
    /\ exit' = "error"
    /\ pc' = "finally"
    /\ UNCHANGED <<variant, offset, cur, season_counts, chart, handed, outcomes,
                   increments, renders, warnings, closes>>

\* main: finally: consumer.close(); then main returns.
main_finally ==
    /\ pc = "finally"
    /\ closes' = closes + 1
    /\ pc' = "done"
    /\ UNCHANGED <<variant, offset, cur, season_counts, chart, handed, outcomes,
                   increments, renders, errors, warnings, exit>>

Next ==
    \/ main_next
    \/ process_message_invalid_json
    \/ process_message_not_dict
    \/ process_message_unhashable
    \/ process_message_increment
    \/ update_chart_completes
    \/ update_chart_fails
    \/ main_exhausted
    \/ main_KeyboardInterrupt
    \/ main_Exception
    \/ main_finally

Spec == Init /\ [][Next]_vars

\* ------------------------------------------------------------------ vocabulary of the properties

\* Every string that can become a season key or an author key.
SeasonKeys == {GetOrUnknown(f).s : f \in {g \in SeasonFields : g.tag # "list"}}
AuthorKeys ==
    {GetOrUnknown(f).s : f \in {g \in AuthorFields : g.tag # "list"}} \cup ColouredAuthors

\* The step in which process_message takes the message main holds.
Called == pc = "call" /\ handed' # handed

\* The payload is a JSON object whose author and season fields, where given,
\* are strings.
Keyed(p) == p.kind = "object" /\ p.author.tag # "list" /\ p.season.tag # "list"

\* The key a field stands for: its string, or "unknown" when it is absent.
KeyOf(field) == IF field.tag = "str" THEN field.s ELSE "unknown"

\* The entry (s, a) grows by one and every other entry keeps its value.
OnlyGrows(s, a) ==
    \A s2 \in SeasonKeys, a2 \in AuthorKeys :
        Count(season_counts', s2, a2) =
            Count(season_counts, s2, a2) + (IF s2 = s /\ a2 = a THEN 1 ELSE 0)

NoCountChanges ==
    \A s \in SeasonKeys, a \in AuthorKeys :
        Count(season_counts', s, a) = Count(season_counts, s, a)

\* Number of calls of process_message that returned with the given outcome.
Outcomes(o) == Cardinality({i \in 1..Len(outcomes) : outcomes[i] = o})

\* ------------------------------------------------------------------ C1

\* C1: a call of process_message with a JSON object giving author A and
\* season S raises season_counts[S][A] by exactly 1 and leaves every other
\* entry at its value (absent = 0); the update_chart that follows, whether it
\* completes or raises, changes no entry.
C1_IncrementFrame ==
    /\ [][(Called /\ Keyed(cur.value)
             /\ cur.value.author.tag = "str" /\ cur.value.season.tag = "str")
            => (OnlyGrows(cur.value.season.s, cur.value.author.s) /\ pc' = "render")]_vars
    /\ [][pc = "render" => NoCountChanges]_vars

\* A message with both fields given was counted although its render raised.
C1_Witness ==
    /\ Len(outcomes) = 2
    /\ outcomes[2] = "render_error"
    /\ handed[2].value = Object(Str("Homer"), Str("1"))
    /\ Count(season_counts, "1", "Homer") = 1
    /\ Count(season_counts, "unknown", "Homer") = 1

\* ------------------------------------------------------------------ C2

\* C2: a payload that is not JSON, or is JSON but no object, leaves
\* season_counts as it was, causes no render, and is reported by one
\* logger.error entry and nothing else; the loop goes on.
C2_RejectedLeavesTable ==
    [][(Called /\ cur.value.kind \in {"text", "array"})
         => /\ season_counts' = season_counts
            /\ chart' = chart
            /\ renders' = renders
            /\ increments' = increments
            /\ errors' = errors + 1
            /\ warnings' = warnings
            /\ exit' = exit]_vars

\* Both kinds of rejected payload arrived after a counted message.
C2_Witness ==
    /\ outcomes = <<"rendered", "invalid_json", "not_dict">>
    /\ SumTable(season_counts) = 1
    /\ renders = 1
    /\ errors = 2

\* ------------------------------------------------------------------ C3

\* C3: consumer.close() is called exactly once in every run of main, however
\* the loop ended (exhaustion, KeyboardInterrupt, another exception): never
\* before the loop has ended, once main is done, always possible once the loop
\* has ended, and no message is pulled after it.
C3_ClosedExactlyOnce ==
    /\ [](closes = (IF pc = "done" THEN 1 ELSE 0))
    /\ []((pc = "done") => (exit \in {"exhausted", "interrupt", "error"}))
    /\ []((exit # "none") => (pc \in {"finally", "done"}))
    /\ []((pc = "finally") => ENABLED main_finally)
    /\ [][(closes' # closes) => (pc = "finally" /\ closes' = closes + 1)]_vars
    /\ [][(closes > 0) => (offset' = offset /\ handed' = handed)]_vars

\* The loop ended by an exception of the iterator after two messages, and
\* the consumer was closed once.
C3_Witness ==
    /\ pc = "done"
    /\ exit = "error"
    /\ closes = 1
    /\ offset = 2

\* ------------------------------------------------------------------ C4

\* The offsets of the messages process_message was called with grow strictly:
\* each message at most once, in source order.
InSourceOrder ==
    \A i, j \in 1..Len(handed) : (i < j) => (handed[i].offset < handed[j].offset)

\* C4: a message that fails to decode does not end the loop: process_message
\* returns to the for statement, which pulls the next message if the source
\* has one; the rejected message is not kept for a retry; every message is
\* given to process_message at most once and in source order.
C4_RejectedIsDropped ==
    /\ [][(Called /\ cur.value.kind \in {"text", "array"})
            => (pc' = "iterate" /\ exit' = "none" /\ cur' = NoMessage
                /\ handed' = Append(handed, cur))]_vars
    /\ []((pc = "iterate" /\ offset < MaxMessages) => ENABLED main_next)
    /\ []InSourceOrder
    /\ [](\A i \in 1..Len(handed) : handed[i].offset < offset)

\* Two rejected messages were followed by a third that was counted and drawn.
C4_Witness ==
    /\ outcomes = <<"invalid_json", "not_dict", "rendered">>
    /\ Len(handed) = 3
    /\ handed[3].offset = 2
    /\ exit = "none"

\* ------------------------------------------------------------------ C5

\* C5: at every pull boundary each increment applied so far has been followed
\* by a completed render, whatever the messages were (a missing or
\* non-numeric season included).
C5_RenderFollowsIncrement ==
    (pc = "iterate") => (renders = increments)

\* ------------------------------------------------------------------ C6

\* C6: a JSON object lacking author, season or both is counted under
\* "unknown" for each missing field: that entry grows by one, and the message
\* goes on to update_chart instead of being dropped.
C6_MissingDefaultsToUnknown ==
    [][(Called /\ Keyed(cur.value)
          /\ (cur.value.author.tag = "absent" \/ cur.value.season.tag = "absent"))
         => /\ OnlyGrows(KeyOf(cur.value.season), KeyOf(cur.value.author))
            /\ increments' = increments + 1
            /\ errors' = errors
            /\ pc' = "render"]_vars

\* One message lacked both fields, one the season, one the author.
C6_Witness ==
    /\ Count(season_counts, "unknown", "unknown") = 1
    /\ Count(season_counts, "unknown", "Homer") = 1
    /\ Count(season_counts, "1", "unknown") = 1

\* ------------------------------------------------------------------ C7

Range(seq) == {seq[i] : i \in 1..Len(seq)}

\* Every element is an integer literal and the integers do not decrease.
AscendingNumeric(seq) ==
    /\ \A i \in 1..Len(seq) : ~IntRaises(seq[i])
    /\ \A i \in 1..(Len(seq) - 1) : PyInt(seq[i]) <= PyInt(seq[i + 1])

\* The seasons of the messages given to process_message, each at its first
\* arrival (a season that is a list or dict never becomes a key).
RECURSIVE FirstArrivals(_)
FirstArrivals(msgs) ==
    IF msgs = <<>> THEN <<>>
    ELSE LET rest == FirstArrivals(SubSeq(msgs, 1, Len(msgs) - 1))
             p == msgs[Len(msgs)].value
         IN IF p.kind = "object" /\ p.season.tag # "list"
                /\ KeyOf(p.season) \notin Range(rest)
            THEN Append(rest, KeyOf(p.season))
            ELSE rest

IsPrefix(s, t) == Len(s) <= Len(t) /\ s = SubSeq(t, 1, Len(s))

\* A completed render lays out every season key once.
LaysOutEveryKey ==
    [][(renders' # renders)
         => /\ chart'.drawn
            /\ Range(chart'.seasons) = KeySet(season_counts')
            /\ Len(chart'.seasons) = Cardinality(KeySet(season_counts'))]_vars

\* Two renders over the same set of seasons use the same order.
SameSetSameOrder ==
    [][(chart.drawn /\ chart'.drawn /\ Range(chart.seasons) = Range(chart'.seasons))
         => (chart'.seasons = chart.seasons)]_vars

\* C7 as claimed: every completed render, of either consumer, lays the seasons
\* out in ascending numeric order.
C7_EveryRenderAscending ==
    chart.drawn => AscendingNumeric(chart.seasons)

\* C7, amended: the project consumer lays the seasons out in ascending numeric
\* order, the draft consumer in order of first arrival; in both every season
\* key is laid out once and two renders over the same set of seasons use the
\* same order.
C7_ProjectAscendingDraftArrival ==
    /\ []((chart.drawn /\ variant = "project") => AscendingNumeric(chart.seasons))
    /\ []((chart.drawn /\ variant = "draft")
            => IsPrefix(chart.seasons, FirstArrivals(handed)))
    /\ LaysOutEveryKey
    /\ SameSetSameOrder

\* Seasons "2", "10", "1" arrived in that order and are drawn as "1", "2", "10"
\* (the lexicographic order would be "1", "10", "2").
C7_Witness ==
    /\ variant = "project"
    /\ chart.drawn
    /\ Keys(season_counts) = <<"2", "10", "1">>
    /\ chart.seasons = <<"1", "2", "10">>

\* ------------------------------------------------------------------ C8

LabelsOf(s) == {l \in chart.labels : l.season = s}

RECURSIVE SumCounts(_)
SumCounts(ls) ==
    IF ls = {} THEN 0
    ELSE LET l == CHOOSE x \in ls : TRUE
         IN l.count + SumCounts(ls \ {l})

RECURSIVE SumOfCounts(_, _, _)
SumOfCounts(table, s, as) ==
    IF as = {} THEN 0
    ELSE LET a == CHOOSE x \in as : TRUE
         IN Count(table, s, a) + SumOfCounts(table, s, as \ {a})

\* The chart on the axes is a completed render of the project consumer and no
\* count has changed since.
ProjectChartCurrent == variant = "project" /\ chart.drawn /\ pc = "iterate"

\* A label is drawn exactly for the coloured authors with a positive count.
LabelledExactlyPositiveColoured ==
    {<<l.season, l.author>> : l \in chart.labels} =
        {p \in SeasonKeys \X AuthorKeys :
            p[2] \in ColouredAuthors /\ Count(season_counts, p[1], p[2]) > 0}

\* Each label shows 100 * count / (sum of all the season's counts) to the
\* nearest tenth, and its divisor is positive.
LabelsShowShare ==
    \A l \in chart.labels :
        /\ l.count = Count(season_counts, l.season, l.author)
        /\ l.total = SumOfCounts(season_counts, l.season, AuthorKeys)
        /\ l.total > 0
        /\ 2 * l.tenths * l.total - 2000 * l.count \in (-l.total)..l.total

\* The exact shares of the labels of a season sum to 100%: their counts sum to
\* the divisor.
SharesSumToAll(s) == SumCounts(LabelsOf(s)) = SumOfCounts(season_counts, s, AuthorKeys)

\* C8 as claimed: labels exactly for coloured authors with a positive count,
\* each 100 * count / group total with a non-zero divisor, and the labelled
\* shares of every labelled group sum to 100%.
C8_LabelsSumToHundred ==
    ProjectChartCurrent
        => /\ LabelledExactlyPositiveColoured
           /\ LabelsShowShare
           /\ \A s \in SeasonKeys : (LabelsOf(s) # {}) => SharesSumToAll(s)

\* C8, amended: as claimed, except that the labelled shares of a group sum to
\* 100 * (count of the coloured authors) / (group total): to 100% exactly when
\* no author outside author_colors has been counted in the group.
C8_LabelsSumToColouredShare ==
    ProjectChartCurrent
        => /\ LabelledExactlyPositiveColoured
           /\ LabelsShowShare
           /\ \A s \in SeasonKeys :
                /\ SumCounts(LabelsOf(s)) =
                       SumOfCounts(season_counts, s, AuthorKeys)
                         - SumOfCounts(season_counts, s, AuthorKeys \ ColouredAuthors)
                /\ (LabelsOf(s) # {})
                     => (SharesSumToAll(s) <=>
                           \A a \in AuthorKeys \ ColouredAuthors :
                               Count(season_counts, s, a) = 0)

\* Season "1" holds Homer 2 and Bart 1, labelled 66.7% and 33.3%.
C8_Witness ==
    /\ ProjectChartCurrent
    /\ chart.labels =
         {[season |-> "1", author |-> "Homer", count |-> 2, total |-> 3, tenths |-> 667],
          [season |-> "1", author |-> "Bart", count |-> 1, total |-> 3, tenths |-> 333]}

\* ------------------------------------------------------------------ C9

\* Calls of process_message that have not returned: 0 or 1.
InFlight == Len(handed) - Len(outcomes)

\* C9 as claimed, for the runs in which no render raised: when the interrupt is
\* handled every increment has had its render completed.
C9_InterruptOnlyAtPull ==
    (exit = "interrupt" /\ Outcomes("render_error") = 0) => (renders = increments)

\* C9, amended: KeyboardInterrupt can also arrive inside process_message, which
\* does not catch it. In every run that ends through the interrupt path main
\* logs one warning and no error of its own, closes the consumer once and
\* returns; at most one message, the one being processed when the interrupt
\* arrived, has its count incremented without its render having either
\* completed or raised.
C9_InterruptLeavesAtMostOne ==
    /\ InFlight \in {0, 1}
    /\ increments = renders + Outcomes("render_error") + InFlight
    /\ (InFlight = 1) => (pc = "render" \/ exit = "interrupt")
    /\ (exit = "interrupt")
         => /\ warnings = 1
            /\ pc \in {"finally", "done"}
            /\ closes = (IF pc = "done" THEN 1 ELSE 0)
            /\ errors = Len(outcomes) - Outcomes("rendered")
    /\ (exit # "interrupt") => (warnings = 0)

\* The interrupt arrived inside update_chart: the run ended with one message
\* counted and not drawn, one warning, and the consumer closed.
C9_Witness ==
    /\ exit = "interrupt"
    /\ pc = "done"
    /\ closes = 1
    /\ warnings = 1
    /\ increments = 2
    /\ renders = 1
    /\ Outcomes("render_error") = 0

\* ------------------------------------------------------------------ C10

\* Every count is a non-negative integer.
CountsAreNat ==
    \A i \in 1..Len(season_counts) :
        \A a \in DOMAIN season_counts[i].counts : season_counts[i].counts[a] \in Nat

\* No count decreases or is reset.
CountsNeverDecrease ==
    [][(season_counts' # season_counts)
         => \A s \in SeasonKeys, a \in AuthorKeys :
               Count(season_counts', s, a) >= Count(season_counts, s, a)]_vars

\* Number of messages given to process_message that satisfy P.
HandedObjects == Cardinality({i \in 1..Len(handed) : handed[i].value.kind = "object"})
HandedKeyed == Cardinality({i \in 1..Len(handed) : Keyed(handed[i].value)})

\* C10 as claimed: the counts are non-negative integers and sum to the number
\* of messages that decoded to a JSON object.
C10_SumIsObjectsDecoded ==
    CountsAreNat /\ SumTable(season_counts) = HandedObjects

\* C10, amended: the counts are non-negative integers, never decrease, and
\* sum to the number of messages that decoded to a JSON object whose author
\* and season, where given, are strings; each such message contributed one
\* increment. An object whose author or season is a list or dict is dropped
\* with an error entry.
C10_SumIsKeyedObjects ==
    /\ [](CountsAreNat
            /\ SumTable(season_counts) = HandedKeyed
            /\ increments = HandedKeyed
            /\ Outcomes("type_error") = HandedObjects - HandedKeyed)
    /\ CountsNeverDecrease

\* Three objects were decoded, one of them with a list for a field: two counts.
C10_Witness ==
    /\ HandedObjects = 3
    /\ Outcomes("type_error") = 1
    /\ SumTable(season_counts) = 2
    /\ Count(season_counts, "1", "Homer") = 2

====
